---- MODULE Spec2Model ----
(***************************************************************************)
(* Model of the ncoe case tracker core: the in-memory CaseRepository       *)
(* (mock package), CaseService (Create, UpdateStatus, business-day         *)
(* deadlines) and DashboardService.GetStats, run by concurrent request     *)
(* goroutines that share one repository; and of the staff sessions:        *)
(* AuthService, the SessionRepository and the RequireAuth middleware in    *)
(* front of the staff routes.                                              *)
(*                                                                         *)
(* Time is an integer number of clock ticks; a tick is the resolution of   *)
(* time.Now().  0 is the zero time.Time.  A stored case is a Go pointer:   *)
(* heap maps a pointer to the record it points to and r.cases maps an ID   *)
(* to a pointer, so that a write through a pointer obtained from GetByID   *)
(* is visible to everybody who holds the same pointer.                     *)
(***************************************************************************)
EXTENDS Integers, Sequences, FiniteSets, TLC

\* ------------------------------------------------------------------ bounds
\* Number of service calls (Create, UpdateStatus, GetStats) that are begun
\* in one behaviour.
MaxCalls == 2
\* Number of consecutive submission days the deadline computation is run on.
NumStartDays == 14
\* Number of ticks the clock advances after start-up.
MaxClock == 1
\* The largest sequence number allocated when case numbers are allocated by
\* themselves.
MaxSeq == 1000

\* The request goroutines.
Procs == {"p1", "p2"}

\* ------------------------------------------------------------------- time
\* Ticks in thirty minutes, the lifetime of a session.
ThirtyMinutes == 2
\* Ticks in a calendar day.
Day == 48 * ThirtyMinutes
\* The first instant of the next calendar year (the start of day 60, a
\* Thursday, see Weekday).
NewYearAt == 60 * Day
\* The instant NewCaseRepository runs: the last tick of the year before.
Now0 == NewYearAt - 1
\* The year of the seeded case numbers.
BaseYear == 2024
\* time.Time.Year()
YearOf(t) == IF t < NewYearAt THEN BaseYear ELSE BaseYear + 1
\* time.Time.Weekday(): 0 is Sunday, 6 is Saturday.
Weekday(t) == (t \div Day) % 7
\* time.Time.AddDate(0, 0, n)
AddDays(t, n) == t + n * Day
\* time.Time.IsZero()
IsZero(t) == t = 0

\* ----------------------------------------------------------------- domain
CaseTypeAdvisoryOpinion == "AO"
CaseTypeEthicsComplaint == "EC"
CaseTypeEthicsAcknowledgment == "EA"
CaseTypePublicRecordsRequest == "PRR"
CaseTypes == {CaseTypeAdvisoryOpinion, CaseTypeEthicsComplaint,
              CaseTypeEthicsAcknowledgment, CaseTypePublicRecordsRequest}

StatusSubmitted == "submitted"
StatusUnderReview == "under_review"
StatusInvestigation == "investigation"
StatusPendingHearing == "pending_hearing"
StatusDraftPrepared == "draft_prepared"
StatusPublished == "published"
StatusClosed == "closed"
StatusWithdrawn == "withdrawn"
Statuses == {StatusSubmitted, StatusUnderReview, StatusInvestigation,
             StatusPendingHearing, StatusDraftPrepared, StatusPublished,
             StatusClosed, StatusWithdrawn}

\* A Go string header is two words, a data pointer and a length.  ptr names
\* the constant the data pointer points into, len is the length word.
Str(s) == [ptr |-> s, len |-> Len(s)]
\* A string header whose two words come from two different assignments.
IsTorn(w) == w.len # Len(w.ptr)
\* Go string equality: equal lengths and equal bytes.  No two status
\* constants share a prefix as long as the shortest of them, so two headers
\* of equal length hold equal bytes only if they point into the same constant.
StrEq(a, b) == a.len = b.len /\ a.ptr = b.ptr

\* A Case ID: the seeded IDs are "1".."10" (prefix "", number n) and the
\* service's are fmt.Sprintf("case_%d", nanos) (prefix "case_").
SeedID(n) == <<"", n>>
CaseID(nanos) == <<"case_", nanos>>

\* domain.Case, the fields the core reads or writes.
MkCase(id, num, typ, st, name, summary, sub, due) ==
    [ID |-> id, CaseNumber |-> num, Type |-> typ, Status |-> Str(st),
     SubmitterName |-> name, Summary |-> summary,
     SubmittedAt |-> sub, DueDate |-> due, CreatedAt |-> 0, UpdatedAt |-> 0]

\* ------------------------------------------------------------ seeded data
\* CaseRepository.seedDemoData: the ten demo cases, in the order of the
\* source; pointer i points to the i-th of them.  now.AddDate(0, -1, 0) is
\* taken as 30 days.
demoCases ==
    << MkCase(SeedID(1), "AO-2024-042", "AO", StatusSubmitted, "John Smith",
              "Question regarding contractor relationships",
              AddDays(Now0, -1), AddDays(Now0, 3)),
       MkCase(SeedID(2), "EC-2024-018", "EC", StatusUnderReview, "Jane Doe",
              "Alleged gift violation",
              AddDays(Now0, -2), AddDays(Now0, 5)),
       MkCase(SeedID(3), "PRR-2024-089", "PRR", StatusSubmitted,
              "City of Henderson", "Request for ethics training records",
              AddDays(Now0, -3), AddDays(Now0, 2)),
       MkCase(SeedID(4), "EA-2024-156", "EA", StatusUnderReview,
              "Robert Johnson", "Annual Ethics Acknowledgment",
              AddDays(Now0, -4), 0),
       MkCase(SeedID(5), "AO-2024-041", "AO", StatusInvestigation,
              "Maria Garcia", "Outside employment with DMV vendor",
              AddDays(Now0, -5), AddDays(Now0, 40)),
       MkCase(SeedID(6), "PRR-2024-088", "PRR", StatusUnderReview,
              "Nevada Press Association", "Request for complaint statistics",
              AddDays(Now0, -7), AddDays(Now0, -2)),
       MkCase(SeedID(7), "AO-2024-039", "AO", StatusUnderReview, "David Chen",
              "Family member employment at vendor",
              AddDays(Now0, -14), AddDays(Now0, 7)),
       MkCase(SeedID(8), "EC-2024-017", "EC", StatusDraftPrepared, "Anonymous",
              "Misuse of public resources",
              AddDays(Now0, -21), AddDays(Now0, 14)),
       MkCase(SeedID(9), "AO-2024-040", "AO", StatusClosed, "Thomas Anderson",
              "Charitable organization board membership",
              AddDays(Now0, -30), AddDays(Now0, -15)),
       MkCase(SeedID(10), "EA-2024-155", "EA", StatusClosed, "Sarah Miller",
              "Annual Ethics Acknowledgment",
              AddDays(Now0, -10), 0) >>

NumSeeds == Len(demoCases)

\* seedDemoData, "Set counters to continue numbering correctly".
SeedCountersLow ==
    [t \in CaseTypes |->
        CASE t = "AO" -> 41 [] t = "EC" -> 18 [] t = "EA" -> 156 [] OTHER -> 89]
SeedCounters ==
    [t \in CaseTypes |->
        CASE t = "AO" -> 42 [] t = "EC" -> 18 [] t = "EA" -> 156 [] OTHER -> 89]

\* --------------------------------------------------- deadline computation
\* calculateBusinessDays, "Skip weekends": the test on result.Weekday().
IsWeekendSaturdayOnly(t) == Weekday(t) = 6
IsWeekendNever(t) == FALSE
IsWeekend(t) == Weekday(t) = 6 \/ Weekday(t) = 0

\* calculateBusinessDays: the loop, from (result, added).
RECURSIVE businessDaysLoop(_, _, _)
businessDaysLoop(result, added, days) ==
    IF added < days
    THEN LET r == AddDays(result, 1)
         IN  businessDaysLoop(r, IF ~IsWeekend(r) THEN added + 1 ELSE added, days)
    ELSE result

calculateBusinessDays(start, days) == businessDaysLoop(start, 0, days)

\* CaseService.Create, "Calculate deadline based on case type": the DueDate
\* of c after the switch, which has no default branch.
DueDateOf(c) ==
    CASE c.Type = CaseTypeAdvisoryOpinion -> calculateBusinessDays(c.SubmittedAt, 45)
      [] c.Type = CaseTypePublicRecordsRequest -> calculateBusinessDays(c.SubmittedAt, 5)
      [] OTHER -> c.DueDate

\* ----------------------------------------------------------- case numbers
\* fmt's %03d: at least three digits, zero padded.
Pad3Last3(n) ==
    LET m == n % 1000
    IN  IF m < 10 THEN "00" \o ToString(m)
        ELSE IF m < 100 THEN "0" \o ToString(m)
        ELSE ToString(m)
Pad3(n) ==
    IF n < 10 THEN "00" \o ToString(n)
    ELSE IF n < 100 THEN "0" \o ToString(n)
    ELSE ToString(n)

\* fmt.Sprintf("%s-%d-%03d", caseType, year, r.counters[caseType])
FormatCaseNumber(caseType, year, n) ==
    caseType \o "-" \o ToString(year) \o "-" \o Pad3(n)

\* r.counters[caseType]++
IncrementLost(ctr, caseType) == ctr
Increment(ctr, caseType) == [ctr EXCEPT ![caseType] = @ + 1]

\* ------------------------------------------------------------------ state
VARIABLES
    cases,      \* r.cases: ID -> pointer
    heap,       \* pointer -> the domain.Case it points to
    counters,   \* r.counters: case type -> last sequence number issued
    mu,         \* r.mu: the goroutine holding the write lock, or None
    now,        \* the clock read by time.Now()
    pc,         \* goroutine -> its position in the operation it runs
    loc,        \* goroutine -> the locals of the operation it runs
    ret,        \* what the step just taken returned to its caller, if it returned
    issued,     \* the NextCaseNumber calls so far: case type and string returned
    calls,      \* number of service calls begun so far
    due,        \* the deadline computation run on one input case
    sessions,   \* SessionRepository.sessions: token -> session
    cookie,     \* the browser's "session" cookie, "" when it has none
    readers     \* r.mu: the goroutines holding the read lock

vars == <<cases, heap, counters, mu, now, pc, loc, ret, issued, calls, due,
         sessions, cookie, readers>>

None == "none"
\* The zero domain.Case.
NoCase == MkCase(SeedID(0), "", "", "", "", "", 0, 0)
\* The zero domain.CaseStats, with allCases, the slice GetStats scans.
NoStats == [allCases |-> {}, TotalOpen |-> 0, TotalPending |-> 0,
            TotalOverdue |-> 0, TotalClosed |-> 0, ByType |-> << >>,
            ByStatus |-> << >>, RecentCases |-> << >>,
            UpcomingDeadlines |-> << >>]
NoLoc == [obj |-> NoCase, c |-> 0, caseID |-> SeedID(0), status |-> "",
          word |-> "", stats |-> NoStats]
\* What a call returned: the operation, the goroutine, the error, and the
\* result of GetStats (stats), of List (list, with its three arguments in
\* args) or of GetUpcomingDeadlines (deadlines, with its limit).  For an
\* HTTP request: the path and the cookie sent (args), the handler that ran,
\* and, of a redirect, the status code and the Location header.
NoRet == [op |-> None, proc |-> None, err |-> "nil", stats |-> NoStats,
          args |-> <<"", "", "">>, list |-> << >>,
          limit |-> 0, deadlines |-> {},
          handler |-> None, code |-> 0, location |-> ""]
NoDue == [pc |-> "off", in |-> NoCase, out |-> 0]

\* sync.RWMutex.  In the service calls a method that takes the read lock
\* does RLock, reads and RUnlocks in one step: acquiring a lock commutes with
\* the steps of the other goroutines that come before the read, so every
\* outcome of the separate steps is an outcome of the single one, and no
\* state has readers inside.  The write lock is taken in a step of its own.
\* The store operations taken by themselves (SpecLock) keep RLock and
\* RUnlock apart and have readers inside.
Unlocked == None
\* r.mu.Lock() can return: nobody holds the write lock and no reader is inside.
CanLock == mu = None /\ readers = {}
\* r.mu.RLock() can return: nobody holds the write lock.
CanRLock == mu = None
Lock(p) == p
UnlockForgotten(p) == p
Unlock(p) == None
\* r.mu.RLock() returning and r.mu.RUnlock(), on the set of readers inside.
RLock(rs, p) == rs \cup {p}
RUnlock(rs, p) == rs \ {p}

\* The pointers r.cases holds.
Stored == {cases[id] : id \in DOMAIN cases}

\* NewCaseRepository, and every goroutine idle.
InitRepo ==
    /\ heap = demoCases
    /\ cases = [id \in {demoCases[i].ID : i \in 1..NumSeeds} |->
                   CHOOSE i \in 1..NumSeeds : demoCases[i].ID = id]
    /\ counters = SeedCounters
    /\ mu = Unlocked
    /\ now = Now0
    /\ pc = [p \in Procs |-> "idle"]
    /\ loc = [p \in Procs |-> NoLoc]
    /\ ret = NoRet
    /\ issued = << >>
    /\ calls = 0
    /\ sessions = << >>
    /\ cookie = ""
    /\ readers = {}

Init == InitRepo /\ due = NoDue

\* ------------------------------------------------------------------ clock
\* The clock advances by one tick of its resolution.
Tick ==
    /\ now - Now0 < MaxClock
    /\ now' = now + 1
    /\ ret' = NoRet
    /\ UNCHANGED <<cases, heap, counters, mu, pc, loc, issued, calls, due,
                 sessions, cookie, readers>>

\* ------------------------------------------------- CaseService.Create
\* The cases the callers pass: the public advisory-opinion handler's (Status
\* submitted, SubmittedAt time.Now(), no DueDate) and an ethics complaint
\* built by another caller of the service, with a status and a due date of
\* its own.
InputCases ==
    { [NoCase EXCEPT !.Type = CaseTypeAdvisoryOpinion,
                     !.Status = Str(StatusSubmitted),
                     !.SubmitterName = "John Test",
                     !.Summary = "Test question summary",
                     !.SubmittedAt = now],
      [NoCase EXCEPT !.Type = CaseTypeEthicsComplaint,
                     !.Status = Str(StatusUnderReview),
                     !.SubmitterName = "Jane Test",
                     !.Summary = "Test complaint",
                     !.SubmittedAt = now,
                     !.DueDate = AddDays(now, 5)] }

CreatePcs == {"cr_ncn", "cr_ncn_cs", "cr_stamp", "cr_store", "cr_store_cs"}

\* A caller builds c and calls CaseService.Create(c).
CreateCall(p) ==
    /\ pc[p] = "idle"
    /\ calls < MaxCalls
    /\ calls' = calls + 1
    /\ \E c \in InputCases : loc' = [loc EXCEPT ![p] = [NoLoc EXCEPT !.obj = c]]
    /\ pc' = [pc EXCEPT ![p] = "cr_ncn"]
    /\ ret' = NoRet
    /\ UNCHANGED <<cases, heap, counters, mu, now, issued, due,
                 sessions, cookie, readers>>

\* NextCaseNumber: r.mu.Lock()
NextCaseNumberLock(p) ==
    /\ pc[p] = "cr_ncn"
    /\ CanLock
    /\ mu' = Lock(p)
    /\ pc' = [pc EXCEPT ![p] = "cr_ncn_cs"]
    /\ ret' = NoRet
    /\ UNCHANGED <<cases, heap, counters, now, loc, issued, calls, due,
                 sessions, cookie, readers>>

\* NextCaseNumber: increment, format, deferred Unlock; Create stores the
\* result in c.CaseNumber.
NextCaseNumber(p) ==
    /\ pc[p] = "cr_ncn_cs"
    /\ LET t == loc[p].obj.Type
           ctr == Increment(counters, t)
           num == FormatCaseNumber(t, YearOf(now), ctr[t])
       IN  /\ counters' = ctr
           /\ issued' = Append(issued, [caseType |-> t, num |-> num])
           /\ loc' = [loc EXCEPT ![p].obj.CaseNumber = num]
    /\ mu' = Unlock(p)
    /\ pc' = [pc EXCEPT ![p] = "cr_stamp"]
    /\ ret' = NoRet
    /\ UNCHANGED <<cases, heap, now, calls, due,
                 sessions, cookie, readers>>

\* c.ID = fmt.Sprintf("case_%d", time.Now().UnixNano()); c.CreatedAt,
\* c.UpdatedAt = time.Now(); the switch on c.Type.  c is not shared yet and
\* the three clock reads follow each other at once: they are one step and
\* read one clock value.
CreateStamp(p) ==
    /\ pc[p] = "cr_stamp"
    /\ loc' = [loc EXCEPT ![p].obj =
                  [@ EXCEPT !.ID = CaseID(now),
                            !.CreatedAt = now, !.UpdatedAt = now,
                            !.DueDate = DueDateOf(loc[p].obj)]]
    /\ pc' = [pc EXCEPT ![p] = "cr_store"]
    /\ ret' = NoRet
    /\ UNCHANGED <<cases, heap, counters, mu, now, issued, calls, due,
                 sessions, cookie, readers>>

\* CaseRepository.Create: r.mu.Lock()
RepoCreateLock(p) ==
    /\ pc[p] = "cr_store"
    /\ CanLock
    /\ mu' = Lock(p)
    /\ pc' = [pc EXCEPT ![p] = "cr_store_cs"]
    /\ ret' = NoRet
    /\ UNCHANGED <<cases, heap, counters, now, loc, issued, calls, due,
                 sessions, cookie, readers>>

\* r.cases[c.ID] = c, the map assignment of Create and of Update: it adds
\* the key if it is not there.
RepoCreateCases(cs, id, ptr) ==
    [k \in DOMAIN cs \cup {id} |-> IF k = id THEN ptr ELSE cs[k]]

\* CaseRepository.Create: the store, return nil, deferred Unlock; Create
\* returns c.CaseNumber.
RepoCreate(p) ==
    /\ pc[p] = "cr_store_cs"
    /\ LET c == loc[p].obj
           ptr == Len(heap) + 1
       IN  /\ heap' = Append(heap, c)
           /\ cases' = RepoCreateCases(cases, c.ID, ptr)
           /\ ret' = [NoRet EXCEPT !.op = "Create", !.proc = p, !.err = "nil"]
    /\ mu' = Unlock(p)
    /\ pc' = [pc EXCEPT ![p] = "idle"]
    /\ loc' = [loc EXCEPT ![p] = NoLoc]
    /\ UNCHANGED <<counters, now, issued, calls, due,
                 sessions, cookie, readers>>

\* ------------------------------------------- CaseService.UpdateStatus
\* The IDs and statuses the staff handler passes: a seeded case, the ID a
\* Create at start-up gives (NotFound until that case is stored), and two
\* statuses of different lengths.
UpdateIDs == {SeedID(1), CaseID(Now0)}
UpdateStatuses == {StatusUnderReview, StatusClosed}

UpdatePcs == {"us_get", "us_w1", "us_w2", "us_time", "us_upd", "us_upd_cs"}

\* CaseService.UpdateStatus(caseID, status) is called, with one of ids and
\* one of sts.
UpdateStatusWith(p, ids, sts) ==
    /\ pc[p] = "idle"
    /\ calls < MaxCalls
    /\ calls' = calls + 1
    /\ \E id \in ids, st \in sts :
          loc' = [loc EXCEPT ![p] = [NoLoc EXCEPT !.caseID = id, !.status = st]]
    /\ pc' = [pc EXCEPT ![p] = "us_get"]
    /\ ret' = NoRet
    /\ UNCHANGED <<cases, heap, counters, mu, now, issued, due,
                 sessions, cookie, readers>>

UpdateStatusCall(p) == UpdateStatusWith(p, UpdateIDs, UpdateStatuses)

\* return r.cases[id]: the stored pointer itself, 0 for nil.
RepoGetByID(cs, id) == IF id \in DOMAIN cs THEN cs[id] ELSE 0

\* c := s.repo.GetByID(caseID): RLock, the lookup, the deferred RUnlock;
\* UpdateStatus returns "case not found" on nil.
GetByID(p) ==
    /\ pc[p] = "us_get"
    /\ CanRLock
    /\ mu' = mu
    /\ LET c == RepoGetByID(cases, loc[p].caseID)
       IN  IF c = 0
           THEN /\ pc' = [pc EXCEPT ![p] = "idle"]
                /\ loc' = [loc EXCEPT ![p] = NoLoc]
                /\ ret' = [NoRet EXCEPT !.op = "UpdateStatus", !.proc = p,
                                         !.err = "NotFound"]
           ELSE /\ pc' = [pc EXCEPT ![p] = "us_w1"]
                /\ loc' = [loc EXCEPT ![p].c = c]
                /\ ret' = NoRet
    /\ UNCHANGED <<cases, heap, counters, now, issued, calls, due,
                 sessions, cookie, readers>>

\* One word of the string header of c.Status takes the word of st.
StoreWordUnlessFinal(c, word, st) ==
    IF StrEq(c.Status, Str(StatusClosed)) \/ StrEq(c.Status, Str(StatusWithdrawn))
    THEN c
    ELSE IF word = "ptr" THEN [c EXCEPT !.Status.ptr = st]
                         ELSE [c EXCEPT !.Status.len = Len(st)]
StoreWordClearsDue(c, word, st) ==
    IF word = "ptr" THEN [c EXCEPT !.Status.ptr = st, !.DueDate = 0]
                    ELSE [c EXCEPT !.Status.len = Len(st)]
StoreWord(c, word, st) ==
    IF word = "ptr" THEN [c EXCEPT !.Status.ptr = st]
                    ELSE [c EXCEPT !.Status.len = Len(st)]
OtherWord(word) == IF word = "ptr" THEN "len" ELSE "ptr"

\* c.Status = status, first word.  The assignment goes through the pointer
\* GetByID returned, with r.mu not held; the two words of the string are
\* stored one after the other, in the order the compiler chose.
SetStatusFirst(p) ==
    /\ pc[p] = "us_w1"
    /\ \E word \in {"ptr", "len"} :
          /\ heap' = [heap EXCEPT ![loc[p].c] = StoreWord(@, word, loc[p].status)]
          /\ loc' = [loc EXCEPT ![p].word = word]
    /\ pc' = [pc EXCEPT ![p] = "us_w2"]
    /\ ret' = NoRet
    /\ UNCHANGED <<cases, counters, mu, now, issued, calls, due,
                 sessions, cookie, readers>>

\* c.Status = status, second word.
SetStatusSecond(p) ==
    /\ pc[p] = "us_w2"
    /\ heap' = [heap EXCEPT ![loc[p].c] =
                   StoreWord(@, OtherWord(loc[p].word), loc[p].status)]
    /\ pc' = [pc EXCEPT ![p] = "us_time"]
    /\ ret' = NoRet
    /\ UNCHANGED <<cases, counters, mu, now, loc, issued, calls, due,
                 sessions, cookie, readers>>

\* c.UpdatedAt = time.Now(), through the same pointer, r.mu not held.
SetUpdatedAt(p) ==
    /\ pc[p] = "us_time"
    /\ heap' = [heap EXCEPT ![loc[p].c].UpdatedAt = now]
    /\ pc' = [pc EXCEPT ![p] = "us_upd"]
    /\ ret' = NoRet
    /\ UNCHANGED <<cases, counters, mu, now, loc, issued, calls, due,
                 sessions, cookie, readers>>

\* CaseRepository.Update: r.mu.Lock()
RepoUpdateLock(p) ==
    /\ pc[p] = "us_upd"
    /\ CanLock
    /\ mu' = Lock(p)
    /\ pc' = [pc EXCEPT ![p] = "us_upd_cs"]
    /\ ret' = NoRet
    /\ UNCHANGED <<cases, heap, counters, now, loc, issued, calls, due,
                 sessions, cookie, readers>>

\* _, exists := r.cases[id]
ExistsAlways(cs, id) == TRUE
Exists(cs, id) == id \in DOMAIN cs

\* The call that Update returns to: UpdateStatus, which has a status to
\* set, or a caller of the repository itself.
UpdateCaller(l) == IF l.status = "" THEN "Update" ELSE "UpdateStatus"

\* CaseRepository.Update: the existence test on c.ID, r.cases[c.ID] = c,
\* the deferred Unlock.
RepoUpdate(p) ==
    /\ pc[p] = "us_upd_cs"
    /\ LET c == loc[p].c
           id == heap[c].ID
       IN  IF ~Exists(cases, id)
           THEN /\ cases' = cases
                /\ ret' = [NoRet EXCEPT !.op = UpdateCaller(loc[p]), !.proc = p,
                                         !.err = "NotFound"]
           ELSE /\ cases' = RepoCreateCases(cases, id, c)
                /\ ret' = [NoRet EXCEPT !.op = UpdateCaller(loc[p]), !.proc = p,
                                         !.err = "nil"]
    /\ mu' = Unlock(p)
    /\ pc' = [pc EXCEPT ![p] = "idle"]
    /\ loc' = [loc EXCEPT ![p] = NoLoc]
    /\ UNCHANGED <<heap, counters, now, issued, calls, due,
                 sessions, cookie, readers>>


\* ------------------------------------------------- repository queries
\* strings.ToLower on the ASCII letters.
LowerChar(ch) ==
    CASE ch = "A" -> "a" [] ch = "B" -> "b" [] ch = "C" -> "c" [] ch = "D" -> "d"
      [] ch = "E" -> "e" [] ch = "F" -> "f" [] ch = "G" -> "g" [] ch = "H" -> "h"
      [] ch = "I" -> "i" [] ch = "J" -> "j" [] ch = "K" -> "k" [] ch = "L" -> "l"
      [] ch = "M" -> "m" [] ch = "N" -> "n" [] ch = "O" -> "o" [] ch = "P" -> "p"
      [] ch = "Q" -> "q" [] ch = "R" -> "r" [] ch = "S" -> "s" [] ch = "T" -> "t"
      [] ch = "U" -> "u" [] ch = "V" -> "v" [] ch = "W" -> "w" [] ch = "X" -> "x"
      [] ch = "Y" -> "y" [] ch = "Z" -> "z" [] OTHER -> ch
RECURSIVE ToLower(_)
ToLower(str) ==
    IF Len(str) = 0 THEN ""
    ELSE LowerChar(SubSeq(str, 1, 1)) \o ToLower(SubSeq(str, 2, Len(str)))
\* strings.Contains
Contains(str, sub) ==
    \E i \in 1..(Len(str) - Len(sub) + 1) : SubSeq(str, i, i + Len(sub) - 1) = sub

\* CaseRepository.List: the three tests of the loop body on one case.
ListKeeps(c, typeFilter, statusFilter, query) ==
    /\ typeFilter = "" \/ c.Type = typeFilter
    /\ statusFilter = "" \/ StrEq(c.Status, Str(statusFilter))
    /\ query = "" \/ Contains(ToLower(c.CaseNumber \o c.Summary \o c.SubmitterName),
                              ToLower(query))

\* CaseRepository.List: the pointers returned; their order is the map's
\* iteration order, which Go leaves unspecified.
RepoList(typeFilter, statusFilter, query) ==
    {c \in Stored : ListKeeps(heap[c], typeFilter, statusFilter, query)}

\* Case.IsOverdue at time t.
IsOverdue(c, t) ==
    IF IsZero(c.DueDate) THEN FALSE
    ELSE /\ t > c.DueDate
         /\ ~StrEq(c.Status, Str(StatusClosed))
         /\ ~StrEq(c.Status, Str(StatusPublished))

\* GetDeadlines: the status computed in the loop; less than 7*24 hours left
\* is less than 7 days left.
DeadlineStatusWithin(dueDate, t) ==
    IF t > dueDate THEN "overdue"
    ELSE IF dueDate - t <= 7 * Day THEN "due_soon"
    ELSE "upcoming"
DeadlineStatus(dueDate, t) ==
    IF t > dueDate THEN "overdue"
    ELSE IF dueDate - t < 7 * Day THEN "due_soon"
    ELSE "upcoming"

\* service.GetDeadlineStatus(dueDate) at time t.
GetDeadlineStatus(dueDate, t) ==
    IF t > dueDate THEN "overdue"
    ELSE IF dueDate - t < 7 * Day THEN "due_soon"
    ELSE "upcoming"

\* GetDeadlines: the domain.Deadline appended for case c.
DeadlineOf(c, t) ==
    [CaseID |-> c.ID, CaseNumber |-> c.CaseNumber, CaseType |-> c.Type,
     Summary |-> c.Summary, DueDate |-> c.DueDate,
     Status |-> DeadlineStatus(c.DueDate, t)]

\* GetDeadlines: the test that lets a case into the result.
HasDeadline(c) == ~IsZero(c.DueDate) /\ ~StrEq(c.Status, Str(StatusClosed))

Min(a, b) == IF a < b THEN a ELSE b

\* sort.Slice(s, less) on the elements S, less comparing key[x]: the slices
\* it can leave, every arrangement of S in which no element comes before
\* one with a smaller key.  The sort is not stable, equal keys end in any
\* order.
RECURSIVE SortSlice(_, _)
SortSlice(S, key) ==
    IF S = {} THEN {<< >>}
    ELSE LET first == {x \in S : \A y \in S : key[x] <= key[y]}
         IN  UNION {{<<x>> \o r : r \in SortSlice(S \ {x}, key)} : x \in first}

\* The first n elements of a slice, all of them if it has fewer.
FirstN(s, n) == SubSeq(s, 1, Min(n, Len(s)))

\* CaseRepository.GetDeadlines(limit): the sets of cases the loop can return.
\* The loop follows the map's iteration order and tests len(deadlines) >=
\* limit after every iteration: with limit >= 1 it returns the first limit
\* cases with a deadline, with limit <= 0 it stops after the first case,
\* which it has appended if that case had a deadline.
GetDeadlinesCases(limit) ==
    LET q == {c \in Stored : HasDeadline(heap[c])}
    IN  IF limit >= 1
        THEN {d \in SUBSET q : Cardinality(d) = Min(limit, Cardinality(q))}
        ELSE {{c} : c \in q} \cup (IF Stored \ q # {} \/ Stored = {} THEN {{}} ELSE {})

\* --------------------------------------------- DashboardService.GetStats
StatsPcs == {"gs_list", "gs_scan", "gs_dl"}

\* DashboardService.GetStats() is called.
GetStatsCall(p) ==
    /\ pc[p] = "idle"
    /\ calls < MaxCalls
    /\ calls' = calls + 1
    /\ loc' = [loc EXCEPT ![p] = NoLoc]
    /\ pc' = [pc EXCEPT ![p] = "gs_list"]
    /\ ret' = NoRet
    /\ UNCHANGED <<cases, heap, counters, mu, now, issued, due,
                 sessions, cookie, readers>>

\* allCases := s.caseRepo.List("", "", ""): RLock, the loop, the deferred
\* RUnlock.
List(p) ==
    /\ pc[p] = "gs_list"
    /\ CanRLock
    /\ loc' = [loc EXCEPT ![p].stats.allCases = RepoList("", "", "")]
    /\ mu' = mu
    /\ pc' = [pc EXCEPT ![p] = "gs_scan"]
    /\ ret' = NoRet
    /\ UNCHANGED <<cases, heap, counters, now, issued, calls, due,
                 sessions, cookie, readers>>

\* GetStats, "Calculate stats from actual data": the loop over allCases,
\* which reads the cases through their pointers with r.mu not held, and the
\* base counts added at the end.
ScanStatsSubmittedNotOpen(all) ==
    [NoStats EXCEPT
       !.allCases = all,
       !.ByType = [t \in {heap[c].Type : c \in all} |->
                      Cardinality({c \in all : heap[c].Type = t})],
       !.ByStatus = [w \in {heap[c].Status : c \in all} |->
                      Cardinality({c \in all : heap[c].Status = w})],
       !.TotalClosed = 150 +
           Cardinality({c \in all : StrEq(heap[c].Status, Str(StatusClosed))}),
       !.TotalPending =
           Cardinality({c \in all : StrEq(heap[c].Status, Str(StatusSubmitted))}),
       !.TotalOpen = 32 +
           Cardinality({c \in all : /\ ~StrEq(heap[c].Status, Str(StatusClosed))
                                    /\ ~StrEq(heap[c].Status, Str(StatusSubmitted))}),
       !.TotalOverdue = Cardinality({c \in all : IsOverdue(heap[c], now)})]
ScanStats(all) ==
    [NoStats EXCEPT
       !.allCases = all,
       !.ByType = [t \in {heap[c].Type : c \in all} |->
                      Cardinality({c \in all : heap[c].Type = t})],
       !.ByStatus = [w \in {heap[c].Status : c \in all} |->
                      Cardinality({c \in all : heap[c].Status = w})],
       !.TotalClosed = 150 +
           Cardinality({c \in all : StrEq(heap[c].Status, Str(StatusClosed))}),
       !.TotalPending =
           Cardinality({c \in all : StrEq(heap[c].Status, Str(StatusSubmitted))}),
       !.TotalOpen = 32 +
           Cardinality({c \in all : ~StrEq(heap[c].Status, Str(StatusClosed))}),
       !.TotalOverdue = Cardinality({c \in all : IsOverdue(heap[c], now)})]

Scan(p) ==
    /\ pc[p] = "gs_scan"
    /\ loc' = [loc EXCEPT ![p].stats = ScanStats(loc[p].stats.allCases)]
    /\ pc' = [pc EXCEPT ![p] = "gs_dl"]
    /\ ret' = NoRet
    /\ UNCHANGED <<cases, heap, counters, mu, now, issued, calls, due,
                 sessions, cookie, readers>>

\* GetStats, "Get recent cases": allCases sorted by SubmittedAt, newest
\* first, and the first five kept, each named by the pointer it is copied
\* from.  The sort reads SubmittedAt only, which no step writes once a case
\* is stored, so it gives the same slices whenever it runs between List and
\* the return.
RecentCasesOfOldestFirst(all) ==
    {FirstN(s, 5) : s \in SortSlice(all, [c \in all |-> heap[c].SubmittedAt])}
RecentCasesOf(all) ==
    {FirstN(s, 5) : s \in SortSlice(all, [c \in all |-> 0 - heap[c].SubmittedAt])}

\* GetStats, "Sort deadlines by due date": the deadlines of the cases d that
\* GetDeadlines returned, ascending by DueDate.
SortDeadlines(d) ==
    LET dl == {DeadlineOf(heap[c], now) : c \in d}
    IN  SortSlice(dl, [x \in dl |-> x.DueDate])

\* deadlines := s.caseRepo.GetDeadlines(5): RLock, the loop, the deferred
\* RUnlock; the two sorts, and the CaseStats returned.
GetDeadlines(p) ==
    /\ pc[p] = "gs_dl"
    /\ CanRLock
    /\ \E recent \in RecentCasesOf(loc[p].stats.allCases) :
       \E d \in GetDeadlinesCases(5) :
       \E up \in SortDeadlines(d) :
          ret' = [NoRet EXCEPT !.op = "GetStats", !.proc = p,
                               !.stats = [loc[p].stats EXCEPT
                                   !.RecentCases = recent,
                                   !.UpcomingDeadlines = up]]
    /\ mu' = mu
    /\ pc' = [pc EXCEPT ![p] = "idle"]
    /\ loc' = [loc EXCEPT ![p] = NoLoc]
    /\ UNCHANGED <<cases, heap, counters, now, issued, calls, due,
                 sessions, cookie, readers>>


Next ==
    \/ Tick
    \/ \E p \in Procs :
          \/ CreateCall(p)
          \/ NextCaseNumberLock(p)
          \/ NextCaseNumber(p)
          \/ CreateStamp(p)
          \/ RepoCreateLock(p)
          \/ RepoCreate(p)
          \/ UpdateStatusCall(p)
          \/ GetByID(p)
          \/ SetStatusFirst(p)
          \/ SetStatusSecond(p)
          \/ SetUpdatedAt(p)
          \/ RepoUpdateLock(p)
          \/ RepoUpdate(p)
          \/ GetStatsCall(p)
          \/ List(p)
          \/ Scan(p)
          \/ GetDeadlines(p)

Spec == Init /\ [][Next]_vars

\* ------------------------------------------------ one call after another
\* The calls of one goroutine, each finished before the next begins: the
\* service's and the repository's operations taken by themselves, on more
\* inputs than the concurrent behaviours are given.
SeqProc == "p1"

\* UpdateStatus on the seeded case that is closed with its due date passed
\* and on the ID a Create at
\* start-up gives (absent until then), with every status.
SeqUpdateIDs == {SeedID(9), CaseID(Now0)}

UpdateStatusAny(p) == UpdateStatusWith(p, SeqUpdateIDs, Statuses)

\* The cases a caller of CaseRepository.Update passes: the second seeded
\* case closed, as a record of its own, under its ID and under an ID that
\* is not in the store.
UpdateInputs ==
    {[demoCases[2] EXCEPT !.ID = id, !.Status = Str(StatusClosed)] :
        id \in {SeedID(2), SeedID(NumSeeds + 1)}}

\* A caller builds c and calls CaseRepository.Update(c).
UpdateCall(p) ==
    /\ pc[p] = "idle"
    /\ calls < MaxCalls
    /\ calls' = calls + 1
    /\ \E c \in UpdateInputs :
          /\ heap' = Append(heap, c)
          /\ loc' = [loc EXCEPT ![p] = [NoLoc EXCEPT !.c = Len(heap) + 1]]
    /\ pc' = [pc EXCEPT ![p] = "us_upd"]
    /\ ret' = NoRet
    /\ UNCHANGED <<cases, counters, mu, now, issued, due,
                 sessions, cookie, readers>>

\* The filters the staff case list is asked with: a type, a status, a name
\* in another case, and a text that runs from the end of a case number into
\* the summary after it.
ListFilters ==
    {<<CaseTypeAdvisoryOpinion, "", "">>, <<"", StatusUnderReview, "">>,
     <<"", "", "GARCIA">>, <<"", "", "42Que">>}

\* CaseRepository.List: the slice returned, as the number of times each
\* pointer is in it; the loop appends r.cases[id] once for every key id it
\* keeps.
ListResult(typeFilter, statusFilter, query) ==
    [c \in RepoList(typeFilter, statusFilter, query) |->
        Cardinality({id \in DOMAIN cases : cases[id] = c})]

\* CaseService.List(typeFilter, statusFilter, query): the call, RLock, the
\* loop, the deferred RUnlock and the return.
CaseServiceList(p) ==
    /\ pc[p] = "idle"
    /\ calls < MaxCalls
    /\ calls' = calls + 1
    /\ CanRLock
    /\ \E f \in ListFilters :
          ret' = [NoRet EXCEPT !.op = "List", !.proc = p, !.args = f,
                               !.list = ListResult(f[1], f[2], f[3])]
    /\ UNCHANGED <<cases, heap, counters, mu, now, pc, loc, issued, due,
                 sessions, cookie, readers>>

\* The limits GetUpcomingDeadlines is called with.
Limits == {0, 1, 5}

\* CaseService.GetUpcomingDeadlines(limit): the call, GetDeadlines(limit)
\* under the read lock and the return.
GetUpcomingDeadlines(p) ==
    /\ pc[p] = "idle"
    /\ calls < MaxCalls
    /\ calls' = calls + 1
    /\ CanRLock
    /\ \E limit \in Limits : \E d \in GetDeadlinesCases(limit) :
          ret' = [NoRet EXCEPT !.op = "GetUpcomingDeadlines", !.proc = p,
                               !.limit = limit,
                               !.deadlines = {DeadlineOf(heap[c], now) : c \in d}]
    /\ UNCHANGED <<cases, heap, counters, mu, now, pc, loc, issued, due,
                 sessions, cookie, readers>>

\* The limits GetRecent is called with; the dashboard passes 10.
RecentLimits == {0, 1, 10}

\* CaseRepository.GetRecent(limit): the sets of cases the loop can return.
\* It follows the map's iteration order, appends the case and then tests
\* len(result) >= limit: with limit >= 1 it returns the first limit cases,
\* with limit <= 0 the first case.
GetRecentCases(limit) ==
    IF limit >= 1
    THEN {d \in SUBSET Stored : Cardinality(d) = Min(limit, Cardinality(Stored))}
    ELSE IF Stored = {} THEN {{}} ELSE {{c} : c \in Stored}

\* CaseService.GetRecent(limit): the call, the loop under the read lock and
\* the return; list holds the cases returned.
GetRecent(p) ==
    /\ pc[p] = "idle"
    /\ calls < MaxCalls
    /\ calls' = calls + 1
    /\ CanRLock
    /\ \E limit \in RecentLimits : \E d \in GetRecentCases(limit) :
          ret' = [NoRet EXCEPT !.op = "GetRecent", !.proc = p, !.limit = limit,
                               !.list = [c \in d |-> 1]]
    /\ UNCHANGED <<cases, heap, counters, mu, now, pc, loc, issued, due,
                 sessions, cookie, readers>>

NextSeq ==
    \/ Tick
    \/ CreateCall(SeqProc)
    \/ NextCaseNumberLock(SeqProc)
    \/ NextCaseNumber(SeqProc)
    \/ CreateStamp(SeqProc)
    \/ RepoCreateLock(SeqProc)
    \/ RepoCreate(SeqProc)
    \/ UpdateStatusAny(SeqProc)
    \/ GetByID(SeqProc)
    \/ SetStatusFirst(SeqProc)
    \/ SetStatusSecond(SeqProc)
    \/ SetUpdatedAt(SeqProc)
    \/ RepoUpdateLock(SeqProc)
    \/ RepoUpdate(SeqProc)
    \/ UpdateCall(SeqProc)
    \/ CaseServiceList(SeqProc)
    \/ GetUpcomingDeadlines(SeqProc)
    \/ GetRecent(SeqProc)
    \/ GetStatsCall(SeqProc)
    \/ List(SeqProc)
    \/ Scan(SeqProc)
    \/ GetDeadlines(SeqProc)

SpecSeq == Init /\ [][NextSeq]_vars

\* ------------------------------------------- the deadline rule by itself
\* The cases Create's deadline switch is run on: every case type, submitted
\* on each of NumStartDays consecutive days, with and without a DueDate set
\* by the caller.
DueInputs ==
    { [NoCase EXCEPT !.Type = t, !.SubmittedAt = AddDays(Now0, k),
                     !.DueDate = IF preset THEN AddDays(Now0, k + 5) ELSE 0] :
        t \in CaseTypes, k \in 0..(NumStartDays - 1), preset \in BOOLEAN }

InitDue ==
    /\ InitRepo
    /\ due \in {[pc |-> "in", in |-> c, out |-> 0] : c \in DueInputs}

\* Create's "Calculate deadline based on case type" on the input case.
ApplyDueDate ==
    /\ due.pc = "in"
    /\ due' = [due EXCEPT !.pc = "done", !.out = DueDateOf(due.in)]
    /\ ret' = NoRet
    /\ UNCHANGED <<cases, heap, counters, mu, now, pc, loc, issued, calls,
                 sessions, cookie, readers>>

NextDue == ApplyDueDate

SpecDue == InitDue /\ [][NextDue]_vars

\* ------------------------------------------- case numbers by themselves
\* The case type the numbers of one behaviour are allocated for.
InitNum ==
    /\ InitRepo
    /\ due \in {[NoDue EXCEPT !.pc = "num", !.in = [NoCase EXCEPT !.Type = t]] :
                    t \in CaseTypes}

\* The latest entry of a slice, as a slice.
Latest(s) == IF Len(s) = 0 THEN s ELSE <<s[Len(s)]>>

\* r.NextCaseNumber(caseType) called when no other call is running: Lock,
\* the increment, the format, the deferred Unlock.  issued keeps the two
\* latest calls.
NextCaseNumberAlone ==
    /\ due.pc = "num"
    /\ CanLock
    /\ counters[due.in.Type] < MaxSeq
    /\ LET t == due.in.Type
           ctr == Increment(counters, t)
           num == FormatCaseNumber(t, YearOf(now), ctr[t])
       IN  /\ counters' = ctr
           /\ issued' = Append(Latest(issued), [caseType |-> t, num |-> num])
    /\ mu' = Unlock(SeqProc)
    /\ ret' = NoRet
    /\ UNCHANGED <<cases, heap, now, pc, loc, calls, due,
                 sessions, cookie, readers>>

NextNum == Tick \/ NextCaseNumberAlone

SpecNum == InitNum /\ [][NextNum]_vars

\* ================================================================ claims

\* C1: no two NextCaseNumber calls for the same case type return the same
\* string, however the calls of concurrent Creates interleave.
C1_UniqueCaseNumbers ==
    \A i, j \in 1..Len(issued) :
        (i # j /\ issued[i].caseType = issued[j].caseType)
            => issued[i].num # issued[j].num

\* Two Creates of the same type are in progress together and each has got
\* its number.
C1_Witness ==
    \E p, q \in Procs :
        /\ p # q
        /\ pc[p] \in {"cr_stamp", "cr_store", "cr_store_cs"}
        /\ pc[q] \in {"cr_stamp", "cr_store", "cr_store_cs"}
        /\ loc[p].obj.Type = loc[q].obj.Type

\* C2: in every state reachable from the seeded store no two stored cases
\* have the same case number, and no step changes the case number of a case
\* record once it is in the store.
C2_CaseNumberUniqueImmutable ==
    /\ [](\A c, d \in Stored : c # d => heap[c].CaseNumber # heap[d].CaseNumber)
    /\ [][\A c \in DOMAIN heap : heap'[c].CaseNumber = heap[c].CaseNumber]_vars

\* A case made by Create is stored and UpdateStatus has closed it.
C2_Witness ==
    \E c \in Stored :
        /\ c > NumSeeds
        /\ heap[c].Type = CaseTypeAdvisoryOpinion
        /\ StrEq(heap[c].Status, Str(StatusClosed))
        /\ ret.op = "UpdateStatus" /\ ret.err = "nil"

\* C3: every Create stores its case under an ID no other case has: the store
\* holds one case more per finished Create and every record ever stored is
\* still there.
C3_EveryCreateAddsACase == Stored = 1..Len(heap)

\* C4: CaseRepository.Create with an ID that is already a key fails with
\* DuplicateKey and leaves the store as it was.
C4_DuplicateKeyRejected ==
    [][\A p \in Procs :
          (pc[p] = "cr_store_cs" /\ pc'[p] = "idle" /\ loc[p].obj.ID \in DOMAIN cases)
              => (ret'.err = "DuplicateKey" /\ cases' = cases)]_vars

\* C5: a field of a stored case changes only in a step taken while the
\* store's write lock is held.
C5_WritesUnderLock ==
    [][\A c \in Stored : heap'[c] # heap[c] => mu # None]_vars

\* C6: when an UpdateStatus on a case finishes and no other UpdateStatus on
\* that case is in progress, it has returned nil and the stored status is the
\* one it asked for: the update applied last wins.
C6_LastUpdateWins ==
    [][\A p \in Procs :
          ( /\ pc[p] = "us_upd_cs" /\ pc'[p] = "idle"
            /\ \A q \in Procs \ {p} :
                  ~(pc[q] \in UpdatePcs /\ loc[q].caseID = loc[p].caseID) )
              => ( /\ ret'.err = "nil"
                   /\ StrEq(heap'[loc[p].c].Status, Str(loc[p].status)) )]_vars

\* C7: a CaseStats is computed from one state of the store: every entry of
\* UpcomingDeadlines belongs to a case of the list its counts were made from.
C7_StatsAreASnapshot ==
    ret.op = "GetStats" =>
        \A i \in DOMAIN ret.stats.UpcomingDeadlines :
            \E c \in ret.stats.allCases :
                heap[c].ID = ret.stats.UpcomingDeadlines[i].CaseID

\* A Saturday or a Sunday, by the calendar.
SaturdayOrSunday(t) == Weekday(t) \in {0, 6}
\* The number of days in (from, to] that are not Saturday or Sunday.
BusinessDaysBetween(from, to) ==
    Cardinality({k \in 1..((to - from) \div Day) : ~SaturdayOrSunday(AddDays(from, k))})
\* The business days of the statutory deadline of a case type.
DeadlineDays(t) == IF t = CaseTypeAdvisoryOpinion THEN 45 ELSE 5

\* C8: the due date of an Advisory Opinion (N = 45) or a Public Records
\* Request (N = 5) is a whole number of days after submission, is not a
\* Saturday or Sunday, and exactly N days in (SubmittedAt, DueDate] are not
\* a Saturday or Sunday, for every submission day of the week.
C8_DueDateIsNthBusinessDay ==
    (due.pc = "done" /\ due.in.Type \in {CaseTypeAdvisoryOpinion, CaseTypePublicRecordsRequest})
        => /\ due.out > due.in.SubmittedAt
           /\ (due.out - due.in.SubmittedAt) % Day = 0
           /\ ~SaturdayOrSunday(due.out)
           /\ BusinessDaysBetween(due.in.SubmittedAt, due.out) = DeadlineDays(due.in.Type)

\* An Advisory Opinion submitted on a Saturday has got its due date.
C8_Witness ==
    /\ due.pc = "done"
    /\ due.in.Type = CaseTypeAdvisoryOpinion
    /\ Weekday(due.in.SubmittedAt) = 6
    /\ due.out = AddDays(due.in.SubmittedAt, 62)

\* C9: an Advisory Opinion is due strictly after t + 45 days and no later
\* than t + 67 days, a Public Records Request between t + 5 and t + 9 days
\* inclusive, t being the submission time, on every day of the week.
C9_DueDateBounds ==
    due.pc = "done" =>
        /\ due.in.Type = CaseTypeAdvisoryOpinion =>
              /\ due.out > AddDays(due.in.SubmittedAt, 45)
              /\ due.out <= AddDays(due.in.SubmittedAt, 67)
        /\ due.in.Type = CaseTypePublicRecordsRequest =>
              /\ due.out >= AddDays(due.in.SubmittedAt, 5)
              /\ due.out <= AddDays(due.in.SubmittedAt, 9)

\* A Public Records Request submitted on a Sunday is due after exactly 5
\* days, the lower bound.
C9_Witness ==
    /\ due.pc = "done"
    /\ due.in.Type = CaseTypePublicRecordsRequest
    /\ Weekday(due.in.SubmittedAt) = 0
    /\ due.out = AddDays(due.in.SubmittedAt, 5)

\* C10: a case of type Ethics Complaint or Ethics Acknowledgment stored by
\* CaseService.Create has a zero DueDate.
C10_NoDeadlineForEthicsCases ==
    \A c \in Stored :
        (c > NumSeeds /\ heap[c].Type \in {CaseTypeEthicsComplaint, CaseTypeEthicsAcknowledgment})
            => IsZero(heap[c].DueDate)

\* C11: when CaseService.Create returns, the case it has stored has Status
\* submitted, whatever Status the caller put in c.
C11_CreateSetsSubmitted ==
    [][\A p \in Procs :
          (pc[p] = "cr_store_cs" /\ pc'[p] = "idle")
              => StrEq(heap'[cases'[loc[p].obj.ID]].Status, Str(StatusSubmitted))]_vars

\* C12: GetByID with the ID of a case that Create has stored returns, after
\* any further calls on other cases, a record with the Type, SubmitterName,
\* Summary and SubmittedAt that case was created with.
C12_CreateThenGetByID ==
    \A c \in DOMAIN heap :
        heap[c].ID[1] = "case_" =>
            LET g == RepoGetByID(cases, heap[c].ID)
            IN  /\ g # 0
                /\ heap[g].Type = heap[c].Type
                /\ heap[g].SubmitterName = heap[c].SubmitterName
                /\ heap[g].Summary = heap[c].Summary
                /\ heap[g].SubmittedAt = heap[c].SubmittedAt

\* C13: UpdateStatus(id, s) on an existing case, no other call running,
\* leaves under id the case with Status s, and the UpdatedAt it writes is
\* strictly later than the UpdatedAt the case had.
C13_UpdateStatusStampsLater ==
    [][\A p \in Procs :
          /\ (pc[p] = "us_time" /\ pc'[p] = "us_upd")
                => heap'[loc[p].c].UpdatedAt > heap[loc[p].c].UpdatedAt
          /\ (pc[p] = "us_upd_cs" /\ pc'[p] = "idle" /\ loc[p].status # "")
                => LET g == RepoGetByID(cases', loc[p].caseID)
                   IN  /\ g = loc[p].c
                       /\ StrEq(heap'[g].Status, Str(loc[p].status))]_vars

\* C14: UpdateStatus with an ID that is not a key of the store returns
\* NotFound, CaseRepository.Update with a case whose ID is not a key returns
\* NotFound, and neither changes the cases, their records or the counters.
C14_UpdateOfAbsentCaseFails ==
    [][\A p \in Procs :
          /\ (pc[p] = "us_get" /\ pc'[p] # "us_get" /\ loc[p].caseID \notin DOMAIN cases)
                => /\ pc'[p] = "idle"
                   /\ ret'.op = "UpdateStatus" /\ ret'.err = "NotFound"
                   /\ cases' = cases /\ heap' = heap /\ counters' = counters
          /\ (pc[p] = "us_upd_cs" /\ pc'[p] = "idle"
                  /\ heap[loc[p].c].ID \notin DOMAIN cases)
                => /\ ret'.err = "NotFound"
                   /\ cases' = cases /\ heap' = heap /\ counters' = counters]_vars

\* CaseRepository.Update has returned NotFound to a caller that passed a
\* case under an ID the store does not have.
C14_Witness ==
    /\ ret.op = "Update" /\ ret.err = "NotFound"
    /\ SeedID(NumSeeds + 1) \notin DOMAIN cases
    /\ heap[Len(heap)].ID = SeedID(NumSeeds + 1)

\* C15: UpdateStatus on an existing case is never refused and, run by
\* itself, returns nil with the stored status the requested one, whatever
\* the status of the case was, closed and withdrawn included.
C15_AnyStatusFromAnyStatus ==
    [][\A p \in Procs :
          /\ (pc[p] = "us_get" /\ pc'[p] # "us_get" /\ loc[p].caseID \in DOMAIN cases)
                => pc'[p] = "us_w1"
          /\ (pc[p] = "us_upd_cs" /\ pc'[p] = "idle" /\ loc[p].status # "")
                => /\ ret'.err = "nil"
                   /\ StrEq(heap'[cases'[loc[p].caseID]].Status,
                            Str(loc[p].status))]_vars

\* The first call of the behaviour was UpdateStatus on the seeded closed
\* case and has returned: the case is now under review.
C15_Witness ==
    /\ calls = 1
    /\ ret.op = "UpdateStatus" /\ ret.err = "nil"
    /\ StrEq(demoCases[9].Status, Str(StatusClosed))
    /\ StrEq(heap[cases[SeedID(9)]].Status, Str(StatusUnderReview))

\* One of the three searched fields of c contains the query, letter case
\* ignored.
FieldContains(c, query) ==
    \E f \in {c.CaseNumber, c.Summary, c.SubmitterName} :
        Contains(ToLower(f), ToLower(query))

\* C16: List returns once every stored case whose Type is the type filter,
\* whose Status is the status filter and one of whose case number, summary
\* and submitter name contains the query (an empty filter lets every case
\* through), and returns no other case.
C16_ListReturnsTheMatches ==
    ret.op = "List" =>
        \A c \in Stored :
            LET n == IF c \in DOMAIN ret.list THEN ret.list[c] ELSE 0
                m == /\ ret.args[1] = "" \/ heap[c].Type = ret.args[1]
                     /\ ret.args[2] = "" \/ StrEq(heap[c].Status, Str(ret.args[2]))
                     /\ ret.args[3] = "" \/ FieldContains(heap[c], ret.args[3])
            IN  n = IF m THEN 1 ELSE 0

\* The due date of c is set and has passed at time t.
PastDue(c, t) == ~IsZero(c.DueDate) /\ t > c.DueDate

\* C17: a stored case with a due date in the past and a status other than
\* closed is overdue by Case.IsOverdue and is counted in TotalOverdue by
\* GetStats; a closed case is never overdue.
C17_OverdueUnlessClosed ==
    /\ \A c \in Stored :
          IsOverdue(heap[c], now) <=>
              (PastDue(heap[c], now) /\ ~StrEq(heap[c].Status, Str(StatusClosed)))
    /\ ret.op = "GetStats" =>
          ret.stats.TotalOverdue =
              Cardinality({c \in ret.stats.allCases :
                  PastDue(heap[c], now) /\ ~StrEq(heap[c].Status, Str(StatusClosed))})

\* C18: GetDeadlines(limit) returns at most limit deadlines, each of a
\* stored case with a due date and a status other than closed.
C18_DeadlinesCapped ==
    ret.op = "GetUpcomingDeadlines" =>
        /\ Cardinality(ret.deadlines) <= ret.limit
        /\ \A d \in ret.deadlines :
              \E c \in Stored : heap[c].ID = d.CaseID /\ HasDeadline(heap[c])

\* C19: UpcomingDeadlines has min(5, k) entries, k the number of stored
\* cases with a due date that are not closed; they are cases of those k, no
\* case of the k left out is due before one that is in, and they are in
\* ascending order of DueDate.
C19_FiveSoonestDeadlines ==
    ret.op = "GetStats" =>
        LET up == ret.stats.UpcomingDeadlines
            q == {c \in Stored : HasDeadline(heap[c])}
        IN  /\ Len(up) = Min(5, Cardinality(q))
            /\ \A i \in DOMAIN up : \E c \in q : heap[c].ID = up[i].CaseID
            /\ \A c \in q :
                  (\A i \in DOMAIN up : up[i].CaseID # heap[c].ID)
                      => \A i \in DOMAIN up : up[i].DueDate <= heap[c].DueDate
            /\ \A i, j \in DOMAIN up : i < j => up[i].DueDate <= up[j].DueDate

\* C20: RecentCases has min(5, n) entries, n the number of stored cases;
\* they are distinct stored cases, no stored case left out was submitted
\* later than one that is in, and they are in descending order of
\* SubmittedAt.
C20_FiveMostRecentCases ==
    ret.op = "GetStats" =>
        LET r == ret.stats.RecentCases
        IN  /\ ret.stats.allCases = Stored
            /\ Len(r) = Min(5, Cardinality(Stored))
            /\ \A i \in DOMAIN r : r[i] \in Stored
            /\ \A i, j \in DOMAIN r : i # j => r[i] # r[j]
            /\ \A c \in Stored :
                  (\A i \in DOMAIN r : r[i] # c)
                      => \A i \in DOMAIN r :
                            heap[c].SubmittedAt <= heap[r[i]].SubmittedAt
            /\ \A i, j \in DOMAIN r :
                  i < j => heap[r[i]].SubmittedAt >= heap[r[j]].SubmittedAt

\* GetStats has returned after a Create, and the case just created is the
\* first of RecentCases, before the five newest seeded cases.
C20_Witness ==
    /\ ret.op = "GetStats"
    /\ Len(ret.stats.RecentCases) = 5
    /\ ret.stats.RecentCases[1] > NumSeeds
    /\ heap[ret.stats.RecentCases[1]].ID[1] = "case_"
    /\ ret.stats.RecentCases[2] = 1

\* A decimal digit; a string of decimal digits.
IsDigit(ch) == ch \in {"0", "1", "2", "3", "4", "5", "6", "7", "8", "9"}
AllDigits(str) == \A i \in 1..Len(str) : IsDigit(SubSeq(str, i, i))

\* str matches ^(AO|EC|EA|PRR)-\d{4}-\d{3}$.
MatchesCaseNumberPattern(str) ==
    \E t \in CaseTypes :
        LET k == Len(t)
        IN  /\ Len(str) = k + 9
            /\ SubSeq(str, 1, k + 1) = t \o "-"
            /\ AllDigits(SubSeq(str, k + 2, k + 5))
            /\ SubSeq(str, k + 6, k + 6) = "-"
            /\ AllDigits(SubSeq(str, k + 7, k + 9))

\* C21: every case number NextCaseNumber returns matches
\* ^(AO|EC|EA|PRR)-\d{4}-\d{3}$, after any number of earlier allocations.
C21_CaseNumberFormat ==
    \A i \in DOMAIN issued : MatchesCaseNumberPattern(issued[i].num)

\* The value of a decimal digit and of a string of decimal digits.
DigitValue(ch) ==
    CASE ch = "0" -> 0 [] ch = "1" -> 1 [] ch = "2" -> 2 [] ch = "3" -> 3
      [] ch = "4" -> 4 [] ch = "5" -> 5 [] ch = "6" -> 6 [] ch = "7" -> 7
      [] ch = "8" -> 8 [] OTHER -> 9
RECURSIVE ParseInt(_)
ParseInt(str) ==
    IF Len(str) = 0 THEN 0
    ELSE 10 * ParseInt(SubSeq(str, 1, Len(str) - 1))
            + DigitValue(SubSeq(str, Len(str), Len(str)))
\* The number a case number ends in: the digits after its last "-".
NumericSuffix(str) ==
    LET dash == CHOOSE i \in 1..Len(str) :
                    /\ SubSeq(str, i, i) = "-"
                    /\ \A j \in (i + 1)..Len(str) : SubSeq(str, j, j) # "-"
    IN  ParseInt(SubSeq(str, dash + 1, Len(str)))

\* C22: of two case numbers allocated one after the other for one type the
\* later ends in the larger number, also when the year has changed between
\* them, and no step lowers a type's sequence counter.
C22_SuffixesIncrease ==
    /\ [](Len(issued) = 2 =>
            (issued[1].caseType = issued[2].caseType
                => NumericSuffix(issued[2].num) > NumericSuffix(issued[1].num)))
    /\ [][\A t \in CaseTypes : counters'[t] >= counters[t]]_vars

\* Two numbers were allocated for one type, the first in the seeded year and
\* the second after the year changed, and the second continues the sequence.
C22_Witness ==
    /\ Len(issued) = 2
    /\ issued[1].num = "EC-2024-019"
    /\ issued[2].num = "EC-2025-020"

\* C25: a step of UpdateStatus(id, s) leaves the counters and the set of
\* stored IDs as they are, changes nothing of any other case, and changes
\* of case id nothing but Status and UpdatedAt.
C25_UpdateStatusFrame ==
    [][\A p \in Procs :
          (pc[p] \in UpdatePcs /\ loc[p].status # "")
              => /\ counters' = counters
                 /\ DOMAIN cases' = DOMAIN cases
                 /\ \A id \in DOMAIN cases :
                       LET old == heap[cases[id]]
                           new == heap'[cases'[id]]
                       IN  IF id = loc[p].caseID
                           THEN [new EXCEPT !.Status = old.Status,
                                            !.UpdatedAt = old.UpdatedAt] = old
                           ELSE new = old]_vars

\* UpdateStatus has published the seeded closed case after the clock
\* advanced: the record is the seeded one but for Status and UpdatedAt.
C25_Witness ==
    /\ calls = 1
    /\ ret.op = "UpdateStatus" /\ ret.err = "nil"
    /\ now > Now0
    /\ heap[cases[SeedID(9)]] =
          [demoCases[9] EXCEPT !.Status = Str(StatusPublished), !.UpdatedAt = now]

\* The sum of the values of a map of counts.
RECURSIVE SumOf(_)
SumOf(f) ==
    IF DOMAIN f = {} THEN 0
    ELSE LET k == CHOOSE k \in DOMAIN f : TRUE
         IN  f[k] + SumOf([j \in DOMAIN f \ {k} |-> f[j]])

\* C28: in the CaseStats made from a list of n cases the ByType counts and
\* the ByStatus counts each sum to n, TotalClosed - 150 is the number of
\* closed cases, TotalOpen - 32 the number of the others, TotalPending the
\* number of submitted cases, and TotalOverdue is at most TotalOpen - 32.
C28_StatsCounts ==
    ret.op = "GetStats" =>
        LET st == ret.stats
            all == st.allCases
            closed == {c \in all : StrEq(heap[c].Status, Str(StatusClosed))}
        IN  /\ SumOf(st.ByType) = Cardinality(all)
            /\ SumOf(st.ByStatus) = Cardinality(all)
            /\ st.TotalClosed - 150 = Cardinality(closed)
            /\ st.TotalOpen - 32 = Cardinality(all \ closed)
            /\ (st.TotalClosed - 150) + (st.TotalOpen - 32) = Cardinality(all)
            /\ st.TotalPending =
                  Cardinality({c \in all : StrEq(heap[c].Status, Str(StatusSubmitted))})
            /\ st.TotalOverdue <= st.TotalOpen - 32

\* GetStats has returned after a Create: eleven cases scanned, three of
\* them submitted, the seeded closed ones counted on top of the 150.
C28_Witness ==
    /\ ret.op = "GetStats"
    /\ Cardinality(ret.stats.allCases) = NumSeeds + 1
    /\ ret.stats.TotalPending = 3
    /\ ret.stats.TotalClosed = 152
    /\ ret.stats.TotalOverdue = 1

\* The deadlines the call that just returned has handed out.
ReturnedDeadlines ==
    IF ret.op = "GetUpcomingDeadlines" THEN ret.deadlines
    ELSE IF ret.op = "GetStats"
         THEN {ret.stats.UpcomingDeadlines[i] : i \in DOMAIN ret.stats.UpcomingDeadlines}
         ELSE {}

\* C29: a deadline GetDeadlines returns is overdue exactly when the time is
\* after its due date, due_soon exactly when the due date has not passed
\* and is less than 7 days away, upcoming otherwise, and that is what
\* GetDeadlineStatus gives for the due date.
C29_DeadlineStatusIsLive ==
    \A d \in ReturnedDeadlines :
        /\ d.Status = "overdue" <=> now > d.DueDate
        /\ d.Status = "due_soon" <=> (now <= d.DueDate /\ d.DueDate - now < 7 * Day)
        /\ d.Status = "upcoming" <=> d.DueDate - now >= 7 * Day
        /\ d.Status = GetDeadlineStatus(d.DueDate, now)

\* GetUpcomingDeadlines has returned a deadline due in exactly 7 days,
\* upcoming, together with an overdue one.
C29_Witness ==
    /\ ret.op = "GetUpcomingDeadlines"
    /\ \E d \in ret.deadlines : d.DueDate - now = 7 * Day /\ d.Status = "upcoming"
    /\ \E d \in ret.deadlines : d.DueDate < now /\ d.Status = "overdue"

\* C30: GetRecent(limit) returns at most limit cases, and no stored case it
\* leaves out was submitted later than a case it returns.
C30_GetRecentIsMostRecent ==
    ret.op = "GetRecent" =>
        /\ Cardinality(DOMAIN ret.list) <= ret.limit
        /\ \A c \in Stored \ DOMAIN ret.list :
              \A r \in DOMAIN ret.list :
                  heap[c].SubmittedAt <= heap[r].SubmittedAt

\* ---------------------------------------------------------- staff sessions
\* Number of ticks the clock advances while the staff sessions are followed.
MaxWait == 3

StatusSeeOther == 303

\* generateToken(): 32 bytes of crypto/rand, hex encoded.  The n-th token
\* issued differs from every token issued before it.
generateToken(n) == "tok" \o ToString(n)
\* The tokens LoginStaff has issued so far.
IssuedTokens == {generateToken(n) : n \in 1..calls}
\* The values of the "session" cookie a client sends: none, a value no login
\* issued, or a token issued by some login.
SentCookies == {"", "forged"} \cup IssuedTokens

\* SessionRepository.Create
SessionCreate(ss, s) ==
    [k \in DOMAIN ss \cup {s.Token} |-> IF k = s.Token THEN s ELSE ss[k]]
\* SessionRepository.Delete
SessionDelete(ss, token) == [k \in DOMAIN ss \ {token} |-> ss[k]]

IsExpiredReversed(s, t) == s.ExpiresAt > t
\* domain.Session.IsExpired: time.Now().After(s.ExpiresAt)
IsExpired(s, t) == t > s.ExpiresAt

\* The error AuthService.ValidateSession returns.  UserRepository.GetByID
\* returns a demo user for an ID it does not hold, so the user is never nil.
ValidateSession(ss, token, t) ==
    IF token \notin DOMAIN ss THEN "invalid session"
    ELSE IF IsExpired(ss[token], t) THEN "session expired"
    ELSE "nil"
\* The sessions AuthService.ValidateSession leaves: an expired session is
\* deleted.
ValidateSessionRepo(ss, token, t) ==
    IF token \in DOMAIN ss /\ IsExpired(ss[token], t)
    THEN SessionDelete(ss, token) ELSE ss

\* The paths requested.
StaffPaths == {"/staff/login", "/staff/logout", "/staff/dashboard",
               "/staff/cases"}
ProtectedDashboardOnly(path) == path = "/staff/dashboard"
\* The routes of main's mux that RequireAuth wraps: "/staff/login" and
\* "/staff/logout" are registered on the mux itself and, being longer
\* patterns than "/staff/", are served without the middleware.
Protected(path) == path \notin {"/staff/login", "/staff/logout"}
\* The handler registered for a path.
HandlerOf(path) ==
    CASE path = "/staff/login" -> "StaffLogin"
      [] path = "/staff/logout" -> "Logout"
      [] path = "/staff/dashboard" -> "Dashboard"
      [] path = "/staff/cases" -> "CaseList"
\* AuthMiddleware.RequireAuth: the error that keeps the request from the
\* next handler, "nil" when it is passed on.
RequireAuth(path, sent, ss, t) ==
    IF path = "/staff/login" THEN "nil"
    ELSE IF sent = "" THEN "http: named cookie not present"
    ELSE ValidateSession(ss, sent, t)

\* Time passes.
Wait ==
    /\ now - Now0 < MaxWait
    /\ now' = now + 1
    /\ ret' = NoRet
    /\ UNCHANGED <<cases, heap, counters, mu, pc, loc, issued, calls, due,
                   sessions, cookie, readers>>

\* POST /staff/login from the browser: AuthHandler.handleStaffLogin and
\* AuthService.LoginStaff, which accepts any credentials, stores a session
\* under a new token and has the browser keep the token in its cookie.
StaffLoginPost ==
    /\ calls < MaxCalls
    /\ LET token == generateToken(calls + 1)
           session == [Token |-> token, UserID |-> "demo_user",
                       ExpiresAt |-> now + ThirtyMinutes, CreatedAt |-> now]
       IN  /\ sessions' = SessionCreate(sessions, session)
           /\ cookie' = token
           /\ ret' = [NoRet EXCEPT !.op = "POST",
                                   !.args = <<"/staff/login", cookie, "">>,
                                   !.handler = HandlerOf("/staff/login"),
                                   !.code = StatusSeeOther,
                                   !.location = "/staff/dashboard"]
    /\ calls' = calls + 1
    /\ UNCHANGED <<cases, heap, counters, mu, now, pc, loc, issued, due,
                   readers>>

\* GET /staff/logout from the browser: AuthHandler.Logout expires the
\* browser's cookie and redirects to the login page.
StaffLogout ==
    /\ cookie' = ""
    /\ ret' = [NoRet EXCEPT !.op = "GET",
                            !.args = <<"/staff/logout", cookie, "">>,
                            !.handler = HandlerOf("/staff/logout"),
                            !.code = StatusSeeOther,
                            !.location = "/staff/login"]
    /\ UNCHANGED <<cases, heap, counters, mu, now, pc, loc, issued, calls,
                   due, sessions, readers>>

\* GET of the login page or of a staff page, from any client, with the
\* cookie it chooses to send: the mux passes the request to the handler of
\* the path, through RequireAuth when the route is wrapped.
StaffGet(path, sent) ==
    LET err == IF Protected(path) THEN RequireAuth(path, sent, sessions, now)
               ELSE "nil"
    IN  /\ sessions' = IF Protected(path) /\ path # "/staff/login" /\ sent # ""
                       THEN ValidateSessionRepo(sessions, sent, now)
                       ELSE sessions
        /\ ret' = IF err = "nil"
                  THEN [NoRet EXCEPT !.op = "GET",
                                     !.args = <<path, sent, "">>,
                                     !.handler = HandlerOf(path)]
                  ELSE [NoRet EXCEPT !.op = "GET",
                                     !.args = <<path, sent, "">>,
                                     !.err = err,
                                     !.code = StatusSeeOther,
                                     !.location = "/staff/login"]
        /\ UNCHANGED <<cases, heap, counters, mu, now, pc, loc, issued, calls,
                       due, cookie, readers>>

StaffRequest ==
    \E path \in StaffPaths \ {"/staff/logout"} :
        \E sent \in SentCookies : StaffGet(path, sent)

NextAuth == Wait \/ StaffLoginPost \/ StaffLogout \/ StaffRequest

SpecAuth == Init /\ [][NextAuth]_vars

\* The request just served: its path, the cookie it carried, and whether
\* that cookie named a stored, unexpired session when the request arrived.
ServedGet == ret'.op = "GET"
ServedPath == ret'.args[1]
ServedCookie == ret'.args[2]
HadValidSession ==
    /\ ServedCookie \in DOMAIN sessions
    /\ now <= sessions[ServedCookie].ExpiresAt
RedirectedToLogin ==
    /\ ret'.handler = None
    /\ ret'.code = StatusSeeOther
    /\ ret'.location = "/staff/login"

\* C23 (as stated): a request to any /staff/ page other than the login page
\* reaches its handler only if it carries a cookie whose session
\* ValidateSession accepts; otherwise the response is a 303 redirect to
\* /staff/login and the handler is not run.
C23_EveryStaffPageButLogin ==
    [][ServedGet /\ ServedPath # "/staff/login" /\ ~HadValidSession
          => RedirectedToLogin]_vars

\* C23 (amended): a request to any /staff/ route other than the login and
\* logout routes reaches its handler only if it carries a cookie whose
\* session ValidateSession accepts; otherwise the response is a 303 redirect
\* to /staff/login and the handler is not run.
C23_WrappedRoutesRequireSession ==
    [][ServedGet /\ ServedPath \notin {"/staff/login", "/staff/logout"}
          /\ ~HadValidSession
          => RedirectedToLogin]_vars

\* A browser that logged in and out again asks for the dashboard and is
\* redirected.
C23_Witness ==
    /\ ret.op = "GET"
    /\ ret.args = <<"/staff/dashboard", "", "">>
    /\ sessions # << >>
    /\ cookie = ""
    /\ ret.handler = None
    /\ ret.code = StatusSeeOther

\* C24: after logout the session is invalid: ValidateSession fails for the
\* token of the session the browser logged out of.
C24_LogoutInvalidatesSession ==
    [][ServedGet /\ ServedPath = "/staff/logout" /\ ServedCookie # ""
          => ValidateSession(sessions', ServedCookie, now') # "nil"]_vars

\* C27: a session created at time t is accepted only while now <= t + 30
\* minutes; no validation extends it; a validation after t + 30 minutes fails
\* and deletes the session, and a deleted session's token is never accepted
\* again.
C27_SessionExpiresAfterThirtyMinutes ==
    [][/\ \A tok \in DOMAIN sessions \cap DOMAIN sessions' :
              sessions'[tok] = sessions[tok]
       /\ \A tok \in IssuedTokens \ DOMAIN sessions :
              tok \notin DOMAIN sessions'
       /\ \A tok \in DOMAIN sessions' \ DOMAIN sessions :
              sessions'[tok].CreatedAt = now
       /\ ServedGet /\ ServedPath \notin {"/staff/login", "/staff/logout"}
             /\ ServedCookie \in DOMAIN sessions
          => LET t == sessions[ServedCookie].CreatedAt
             IN  /\ ret'.handler # None => now <= t + ThirtyMinutes
                 /\ now > t + ThirtyMinutes
                      => /\ ret'.handler = None
                         /\ ret'.err # "nil"
                         /\ ServedCookie \notin DOMAIN sessions']_vars

\* A request carrying the token of a session older than thirty minutes has
\* been refused, and the session is gone.
C27_Witness ==
    /\ ret.op = "GET"
    /\ ret.args[2] \in IssuedTokens
    /\ ret.err = "session expired"
    /\ ret.handler = None
    /\ ret.args[2] \notin DOMAIN sessions

\* ------------------------------------------- the store's lock by itself
\* The operations of CaseRepository called by concurrent goroutines, with
\* sync.RWMutex as Go implements it: Lock waits for the readers inside and,
\* once it waits, keeps new readers out; Unlock lets in the readers that
\* arrived meanwhile.  A goroutine is at st_call (about to lock), st_pending
\* (in Lock, waiting for the readers to leave), st_write (holds the write
\* lock), st_rblocked (in RLock, behind a writer) or st_read (holds the read
\* lock).
WriteOps == {"Create", "Update", "NextCaseNumber"}
ReadOps == {"GetByID", "GetByCaseNumber", "List", "GetDeadlines",
            "GetAllDeadlines"}
\* The calls made: the operation and its argument, the ID of a case (of a
\* stored one, or of none), a case type or a case number.
StoreCalls ==
    {<<"Create", SeedID(0), "">>,
     <<"NextCaseNumber", SeedID(0), CaseTypeAdvisoryOpinion>>,
     <<"Update", SeedID(1), "">>, <<"Update", SeedID(NumSeeds + 1), "">>,
     <<"GetByID", SeedID(1), "">>,
     <<"GetByCaseNumber", SeedID(0), demoCases[1].CaseNumber>>,
     <<"List", SeedID(0), "">>, <<"GetDeadlines", SeedID(0), "">>,
     <<"GetAllDeadlines", SeedID(0), "">>}

\* A writer is in Lock or holds the lock: RLock blocks, and so does another
\* writer's Lock.
WriterInside == mu # None \/ \E q \in Procs : pc[q] = "st_pending"

\* A goroutine calls a store operation.
StoreCall(p) ==
    /\ pc[p] = "idle"
    /\ calls < MaxCalls
    /\ calls' = calls + 1
    /\ \E call \in StoreCalls :
          loc' = [loc EXCEPT ![p].status = call[1], ![p].caseID = call[2],
                             ![p].word = call[3]]
    /\ pc' = [pc EXCEPT ![p] = "st_call"]
    /\ ret' = NoRet
    /\ UNCHANGED <<cases, heap, counters, mu, now, issued, due,
                   sessions, cookie, readers>>

\* r.mu.Lock() of Create, Update and NextCaseNumber: it returns at once if
\* no reader is inside and otherwise waits, announced to the readers.
StoreLock(p) ==
    /\ pc[p] = "st_call"
    /\ loc[p].status \in WriteOps
    /\ ~WriterInside
    /\ IF readers = {}
       THEN mu' = Lock(p) /\ pc' = [pc EXCEPT ![p] = "st_write"]
       ELSE mu' = mu /\ pc' = [pc EXCEPT ![p] = "st_pending"]
    /\ ret' = NoRet
    /\ UNCHANGED <<cases, heap, counters, now, loc, issued, calls, due,
                   sessions, cookie, readers>>

\* r.mu.Lock() returns to the waiting writer: the last reader has left.
StoreLockWake(p) ==
    /\ pc[p] = "st_pending"
    /\ readers = {}
    /\ mu' = Lock(p)
    /\ pc' = [pc EXCEPT ![p] = "st_write"]
    /\ ret' = NoRet
    /\ UNCHANGED <<cases, heap, counters, now, loc, issued, calls, due,
                   sessions, cookie, readers>>

\* The body of Create, Update or NextCaseNumber and the deferred Unlock,
\* which lets in the readers blocked in RLock.
StoreWrite(p) ==
    /\ pc[p] = "st_write"
    /\ LET op == loc[p].status
           id == loc[p].caseID
       IN  CASE op = "Create" ->
                  /\ heap' = Append(heap, [NoCase EXCEPT !.ID = CaseID(now)])
                  /\ cases' = RepoCreateCases(cases, CaseID(now), Len(heap) + 1)
                  /\ ret' = [NoRet EXCEPT !.op = op, !.proc = p]
                  /\ UNCHANGED <<counters, issued>>
             [] op = "Update" ->
                  /\ cases' = IF Exists(cases, id)
                              THEN RepoCreateCases(cases, id, cases[id])
                              ELSE cases
                  /\ ret' = [NoRet EXCEPT !.op = op, !.proc = p,
                                          !.err = IF Exists(cases, id)
                                                  THEN "nil" ELSE "NotFound"]
                  /\ UNCHANGED <<heap, counters, issued>>
             [] op = "NextCaseNumber" ->
                  LET t == loc[p].word
                      ctr == Increment(counters, t)
                      num == FormatCaseNumber(t, YearOf(now), ctr[t])
                  IN  /\ counters' = ctr
                      /\ issued' = Append(issued, [caseType |-> t, num |-> num])
                      /\ ret' = [NoRet EXCEPT !.op = op, !.proc = p,
                                              !.args = <<num, "", "">>]
                      /\ UNCHANGED <<cases, heap>>
    /\ mu' = Unlock(p)
    /\ readers' = {q \in Procs : pc[q] = "st_rblocked"}
    /\ pc' = [q \in Procs |-> IF q = p THEN "idle"
                               ELSE IF pc[q] = "st_rblocked" THEN "st_read"
                               ELSE pc[q]]
    /\ loc' = [loc EXCEPT ![p] = NoLoc]
    /\ UNCHANGED <<now, calls, due, sessions, cookie>>

\* r.mu.RLock() of GetByID, GetByCaseNumber, List and GetDeadlines
\* (GetAllDeadlines is GetDeadlines(100) and takes no lock of its own): it
\* returns at once unless a writer is inside, and then blocks until that
\* writer unlocks.
StoreRLock(p) ==
    /\ pc[p] = "st_call"
    /\ loc[p].status \in ReadOps
    /\ IF WriterInside
       THEN readers' = readers /\ pc' = [pc EXCEPT ![p] = "st_rblocked"]
       ELSE readers' = RLock(readers, p) /\ pc' = [pc EXCEPT ![p] = "st_read"]
    /\ ret' = NoRet
    /\ UNCHANGED <<cases, heap, counters, mu, now, loc, issued, calls, due,
                   sessions, cookie>>

\* The cases a read operation can return.
StoreReadResults(op, id, num) ==
    CASE op = "GetByID" -> {{RepoGetByID(cases, id)} \ {0}}
      [] op = "GetByCaseNumber" ->
           LET found == {c \in Stored : heap[c].CaseNumber = num}
           IN  IF found = {} THEN {{}} ELSE {{c} : c \in found}
      [] op = "List" -> {RepoList("", "", "")}
      [] op = "GetDeadlines" -> GetDeadlinesCases(1)
      [] op = "GetAllDeadlines" -> GetDeadlinesCases(100)

\* The body of a read operation and the deferred RUnlock.
StoreRead(p) ==
    /\ pc[p] = "st_read"
    /\ \E d \in StoreReadResults(loc[p].status, loc[p].caseID, loc[p].word) :
          ret' = [NoRet EXCEPT !.op = loc[p].status, !.proc = p,
                               !.list = [c \in d |-> 1]]
    /\ readers' = RUnlock(readers, p)
    /\ pc' = [pc EXCEPT ![p] = "idle"]
    /\ loc' = [loc EXCEPT ![p] = NoLoc]
    /\ UNCHANGED <<cases, heap, counters, mu, now, issued, calls, due,
                   sessions, cookie>>

\* The steps of a store operation once it is called.
StoreRun(p) ==
    \/ StoreLock(p)
    \/ StoreLockWake(p)
    \/ StoreWrite(p)
    \/ StoreRLock(p)
    \/ StoreRead(p)

NextLock == \E p \in Procs : StoreCall(p) \/ StoreRun(p)

\* The Go scheduler runs every runnable goroutine, and a sync.Mutex hands
\* the lock to a waiter that has been passed over (starvation mode): a
\* writer whose Lock can return again and again does return.
SpecLock ==
    /\ Init
    /\ [][NextLock]_vars
    /\ \A p \in Procs : WF_vars(StoreRun(p)) /\ SF_vars(StoreLock(p))

\* C26: under fair scheduling every store operation that is started
\* completes, and when it has completed it does not hold the lock: no
\* interleaving of readers and writers deadlocks or leaves the lock held.
C26_StoreOperationsComplete ==
    /\ \A p \in Procs : (pc[p] # "idle") ~> (pc[p] = "idle")
    /\ [](\A p \in Procs : pc[p] = "idle" => mu # p /\ p \notin readers)

\* A writer waits in Lock while a reader is inside.
C26_Witness ==
    \E p, q \in Procs :
        /\ pc[p] = "st_pending"
        /\ loc[p].status = "Update"
        /\ q \in readers
        /\ loc[q].status = "GetAllDeadlines"

====
